---- MODULE Spec2Model ----
(***************************************************************************)
(* music/SystemHeaders.h: a guarded aggregator of six system headers.      *)
(*                                                                         *)
(* The model is the preprocessor working through one translation unit      *)
(* that includes SystemHeaders.h.  The state is the preprocessor's: the    *)
(* macro table, the declarations visible so far, the stack of active       *)
(* inclusions of SystemHeaders.h (each at one line of the file), the       *)
(* sequence of #include directives the file has issued, and the            *)
(* compilation status.  Every directive of the file is one action.         *)
(***************************************************************************)
EXTENDS Naturals, Sequences, FiniteSets

(* ---- bounds of the model ---- *)

\* inclusions of SystemHeaders.h (direct and nested) in one translation unit
MaxInclusions == 3

(* ---- the file, line by line ---- *)

\* line 1 and 2: the guard macro's name
Guard == "SystemHeaders_h"

\* the file's own name, as the origin of the macros it defines
ThisFile == "SystemHeaders.h"

\* line 1: #ifndef SystemHeaders_h
IfndefLine == 1

\* line 2: #define SystemHeaders_h
DefineLine == 2

\* line 5: the first #include directive
FirstIncludeLine == 5

\* line 12: #endif
EndifLine == 12

\* variant: the netdb.h line is lost
Includes_Missing ==
  << "sys/socket.h", "netinet/in.h", "arpa/inet.h", "unistd.h", "ifaddrs.h" >>

\* variant: one more header is pulled in
Includes_Extra ==
  << "sys/socket.h", "netinet/in.h", "arpa/inet.h",
     "unistd.h", "netdb.h", "ifaddrs.h", "fcntl.h" >>

\* lines 5-10: the #include directives, in file order
Includes ==
  << "sys/socket.h", "netinet/in.h", "arpa/inet.h",
     "unistd.h", "netdb.h", "ifaddrs.h" >>

\* the line of the last #include directive
LastIncludeLine == FirstIncludeLine + Len(Includes) - 1

IncludeLines == FirstIncludeLine .. LastIncludeLine

\* the header named by the #include directive at line l
HeaderAt(l) == Includes[l - FirstIncludeLine + 1]

Headers == { Includes[i] : i \in 1..Len(Includes) }

\* the line the preprocessor reads after the #include at line l
AfterInclude(l) == IF l < LastIncludeLine THEN l + 1 ELSE EndifLine

(* ---- the target platform and the including translation unit ---- *)

\* the system headers a target platform may or may not provide
PlatformHeaders ==
  { "sys/socket.h", "netinet/in.h", "arpa/inet.h",
    "unistd.h", "netdb.h", "ifaddrs.h" }

\* macro names of the translation unit: the guard's and one of its own
MacroNames == { Guard, "USER_MACRO" }

\* where a macro's definition comes from
Origins == { "undef", "tu", ThisFile }

\* entities the including code declares itself
UserEntities == { "user_fn" }

VARIABLES
  avail,      \* the system headers the target platform provides
  macros,     \* macro table: name -> origin of its definition ("undef": none)
  decls,      \* declarations visible: user entities, and headers' contents
  stack,      \* active inclusions of SystemHeaders.h: [n, line], top last
  log,        \* the #include directives the file has issued, in order
  status,     \* "compiling", "error" (fatal, compilation stops) or "done"
  errAt,      \* the header whose #include failed, or "none"
  redefined,  \* macros a #define found already defined
  nIncl       \* inclusions of SystemHeaders.h begun so far

vars == << avail, macros, decls, stack, log, status, errAt, redefined, nIncl >>

Defined(m) == macros[m] # "undef"

Top == stack[Len(stack)]

Pop == SubSeq(stack, 1, Len(stack) - 1)

\* the top inclusion moves on to line l
Goto(l) == [stack EXCEPT ![Len(stack)].line = l]

InFile == status = "compiling" /\ stack # << >>

AtTopLevel == status = "compiling" /\ stack = << >>

TypeOK ==
  /\ avail \subseteq PlatformHeaders
  /\ macros \in [MacroNames -> Origins]
  /\ decls \subseteq (Headers \cup UserEntities)
  /\ stack \in Seq([n : 1..MaxInclusions, line : IfndefLine..EndifLine])
  /\ status \in { "compiling", "error", "done" }
  /\ errAt \in Headers \cup { "none" }
  /\ redefined \subseteq MacroNames
  /\ nIncl \in 0..MaxInclusions

Init ==
  /\ avail \in SUBSET PlatformHeaders
  /\ macros = [m \in MacroNames |-> "undef"]
  /\ decls = {}
  /\ stack = << >>
  /\ log = << >>
  /\ status = "compiling"
  /\ errAt = "none"
  /\ redefined = {}
  /\ nIncl = 0

(* ---- steps of the including translation unit ---- *)

\* the including code defines a macro of its own choosing
TUDefine(m) ==
  /\ AtTopLevel
  /\ ~Defined(m)
  /\ macros' = [macros EXCEPT ![m] = "tu"]
  /\ UNCHANGED << avail, decls, stack, log, status, errAt, redefined, nIncl >>

\* the including code declares an entity of its own
TUDeclare(e) ==
  /\ AtTopLevel
  /\ e \notin decls
  /\ decls' = decls \cup {e}
  /\ UNCHANGED << avail, macros, stack, log, status, errAt, redefined, nIncl >>

\* #include "SystemHeaders.h" in the translation unit or a header it includes
TUInclude ==
  /\ AtTopLevel
  /\ nIncl < MaxInclusions
  /\ nIncl' = nIncl + 1
  /\ stack' = << [n |-> nIncl + 1, line |-> IfndefLine] >>
  /\ UNCHANGED << avail, macros, decls, log, status, errAt, redefined >>

\* the header being included at the current #include line includes
\* SystemHeaders.h again, before that directive has completed
NestedInclude ==
  /\ InFile
  /\ Top.line \in IncludeLines
  /\ HeaderAt(Top.line) \in avail
  /\ nIncl < MaxInclusions
  /\ nIncl' = nIncl + 1
  /\ stack' = Append(stack, [n |-> nIncl + 1, line |-> IfndefLine])
  /\ UNCHANGED << avail, macros, decls, log, status, errAt, redefined >>

\* the end of the translation unit
TUEnd ==
  /\ AtTopLevel
  /\ status' = "done"
  /\ UNCHANGED << avail, macros, decls, stack, log, errAt, redefined, nIncl >>

(* ---- the directives of SystemHeaders.h ---- *)

\* variant: no guard test at all, the body is always entered
Ifndef_NoSkip ==
  /\ InFile
  /\ Top.line = IfndefLine
  /\ stack' = Goto(DefineLine)
  /\ UNCHANGED << avail, macros, decls, log, status, errAt, redefined, nIncl >>

\* variant: #ifdef written for #ifndef
Ifndef_Inverted ==
  /\ InFile
  /\ Top.line = IfndefLine
  /\ stack' = Goto(IF Defined(Guard) THEN DefineLine ELSE EndifLine)
  /\ UNCHANGED << avail, macros, decls, log, status, errAt, redefined, nIncl >>

\* variant: the #endif sits right after the #define, so the guard protects
\* the #define alone and the #include lines are always processed
Ifndef_GuardsDefineOnly ==
  /\ InFile
  /\ Top.line = IfndefLine
  /\ stack' = Goto(IF Defined(Guard) THEN FirstIncludeLine ELSE DefineLine)
  /\ UNCHANGED << avail, macros, decls, log, status, errAt, redefined, nIncl >>

\* line 1: #ifndef SystemHeaders_h -- the whole body is skipped when defined
Ifndef ==
  /\ InFile
  /\ Top.line = IfndefLine
  /\ stack' = Goto(IF Defined(Guard) THEN EndifLine ELSE DefineLine)
  /\ UNCHANGED << avail, macros, decls, log, status, errAt, redefined, nIncl >>

\* variant: the #define names another macro than the guard
Define_WrongMacro ==
  /\ InFile
  /\ Top.line = DefineLine
  /\ macros' = [macros EXCEPT !["USER_MACRO"] = ThisFile]
  /\ redefined' = IF Defined("USER_MACRO")
                    THEN redefined \cup {"USER_MACRO"} ELSE redefined
  /\ stack' = Goto(FirstIncludeLine)
  /\ UNCHANGED << avail, decls, log, status, errAt, nIncl >>

\* variant: the #define line is lost
Define_Missing ==
  /\ InFile
  /\ Top.line = DefineLine
  /\ stack' = Goto(FirstIncludeLine)
  /\ UNCHANGED << avail, macros, decls, log, status, errAt, redefined, nIncl >>

\* line 2: #define SystemHeaders_h
Define ==
  /\ InFile
  /\ Top.line = DefineLine
  /\ macros' = [macros EXCEPT ![Guard] = ThisFile]
  /\ redefined' = IF Defined(Guard) THEN redefined \cup {Guard} ELSE redefined
  /\ stack' = Goto(FirstIncludeLine)
  /\ UNCHANGED << avail, decls, log, status, errAt, nIncl >>

\* variant: a header the platform lacks is passed over silently
\* (as with __has_include around each directive)
Include_IgnoreMissing ==
  /\ InFile
  /\ Top.line \in IncludeLines
  /\ LET h == HeaderAt(Top.line) IN
       /\ log' = Append(log, h)
       /\ decls' = IF h \in avail THEN decls \cup {h} ELSE decls
       /\ stack' = Goto(AfterInclude(Top.line))
  /\ UNCHANGED << avail, macros, status, errAt, redefined, nIncl >>

\* lines 5-10: #include <h> -- a header the platform lacks is a fatal error
Include ==
  /\ InFile
  /\ Top.line \in IncludeLines
  /\ LET h == HeaderAt(Top.line) IN
       /\ log' = Append(log, h)
       /\ IF h \in avail
            THEN /\ decls' = decls \cup {h}
                 /\ stack' = Goto(AfterInclude(Top.line))
                 /\ UNCHANGED << status, errAt >>
            ELSE /\ status' = "error"
                 /\ errAt' = h
                 /\ UNCHANGED << decls, stack >>
  /\ UNCHANGED << avail, macros, redefined, nIncl >>

\* line 12: #endif -- the inclusion ends
Endif ==
  /\ InFile
  /\ Top.line = EndifLine
  /\ stack' = Pop
  /\ UNCHANGED << avail, macros, decls, log, status, errAt, redefined, nIncl >>

Next ==
  \/ \E m \in MacroNames : TUDefine(m)
  \/ \E e \in UserEntities : TUDeclare(e)
  \/ TUInclude
  \/ NestedInclude
  \/ TUEnd
  \/ Ifndef
  \/ Define
  \/ Include
  \/ Endif

Spec == Init /\ [][Next]_vars

(* ---- what the specification says of the file ---- *)

\* the six headers the specification lists, in the order the file names them
SixInOrder ==
  << "sys/socket.h", "netinet/in.h", "arpa/inet.h",
     "unistd.h", "netdb.h", "ifaddrs.h" >>

SixHeaders == { SixInOrder[i] : i \in 1..Len(SixInOrder) }

SeqSet(s) == { s[i] : i \in 1..Len(s) }

IsPrefix(s, t) == Len(s) <= Len(t) /\ \A i \in 1..Len(s) : s[i] = t[i]

\* the platform lacks at least one of the six headers
LacksOne == SixHeaders \ avail # {}

\* position, in file order, of the first header the platform lacks
FirstMissingIdx ==
  CHOOSE i \in 1..Len(SixInOrder) :
    /\ SixInOrder[i] \notin avail
    /\ \A j \in 1..(i - 1) : SixInOrder[j] \in avail

\* an inclusion of SystemHeaders.h has been begun and none is active
InclusionOver == nIncl >= 1 /\ stack = << >>

\* the including code had defined the guard macro itself
GuardPredefined == macros[Guard] = "tu"

\* what an inclusion of the file can change
FileState == << macros, decls, log, status, errAt, redefined >>

\* C1: every inclusion after the first, direct or nested, is skipped by the
\* guard: no step of it changes the preprocessor state (macros, declarations,
\* directives issued, status), the body being processed on the first
\* inclusion only, and no #define ever finds its macro already defined.
C1_LaterInclusionsSkipped ==
  [][ /\ (InFile /\ Top.n >= 2) => UNCHANGED FileState
      /\ redefined' = {}
      /\ Cardinality(SeqSet(log')) = Len(log') ]_vars

\* two inclusions are over and the body was processed, once
C1_Witness ==
  /\ nIncl >= 2
  /\ stack = << >>
  /\ log = SixInOrder

\* C2 as stated: after the first inclusion on a platform providing all the
\* headers, the headers pulled in by the file are exactly the six listed.
C2_Original ==
  (avail = SixHeaders /\ InclusionOver) => SeqSet(log) = SixHeaders

\* C2 amended: the same, provided the guard macro was not already defined by
\* the including code when the file was first included.
C2_ExactlySixHeaders ==
  (avail = SixHeaders /\ InclusionOver /\ ~GuardPredefined)
    => SeqSet(log) = SixHeaders

C2_Witness ==
  /\ avail = SixHeaders
  /\ nIncl = 1
  /\ stack = << >>
  /\ macros[Guard] = ThisFile

\* C3 as stated: one processing of the file's body issues exactly nine
\* #include directives.
C3_Original ==
  (macros[Guard] = ThisFile /\ stack = << >>) => Len(log) = 9

\* C3 amended: one processing of the file's body issues exactly six #include
\* directives (and never more than six are issued).
C3_SixDirectives ==
  /\ Len(log) <= 6
  /\ (macros[Guard] = ThisFile /\ stack = << >>) => Len(log) = 6

C3_Witness ==
  /\ macros[Guard] = ThisFile
  /\ stack = << >>
  /\ status = "done"

\* C4 as stated: on a platform lacking one of the six headers the first
\* inclusion ends in the error state, never in a successful inclusion.
C4_Original ==
  (LacksOne /\ InclusionOver) => status = "error"

\* C4 amended: on a platform lacking one of the six headers, and with the
\* guard macro not already defined by the including code, the first inclusion
\* never completes: it goes no further than the #include of the first missing
\* header in file order, where the error is raised, with the headers before it
\* included and none after it.  A missing header is the only error there is.
C4_FailsAtFirstMissing ==
  /\ (status = "error") <=> (errAt # "none")
  /\ status = "error" => errAt \in SixHeaders \ avail
  /\ LacksOne =>
       /\ (nIncl >= 1 /\ ~GuardPredefined) => (stack # << >> /\ status # "done")
       /\ Len(log) <= FirstMissingIdx
       /\ (status = "error") <=> (Len(log) = FirstMissingIdx)
       /\ IsPrefix(log, SixInOrder)
       /\ status = "error" =>
            /\ errAt = SixInOrder[FirstMissingIdx]
            /\ decls \cap SixHeaders
                 = { SixInOrder[j] : j \in 1..(FirstMissingIdx - 1) }

\* the error is raised at netdb.h, the four headers before it included
C4_Witness ==
  /\ avail = SixHeaders \ { "netdb.h", "ifaddrs.h" }
  /\ status = "error"
  /\ errAt = "netdb.h"
  /\ Len(log) = 5

\* C5 as stated: on every platform providing all the headers, including the
\* file succeeds and the networking declarations are visible afterwards, with
\* no redefinition conflict.
C5_Original ==
  (SixHeaders \subseteq avail) =>
    /\ status # "error"
    /\ redefined = {}
    /\ InclusionOver => SixHeaders \subseteq decls

\* C5 amended: the same, the declarations being visible afterwards provided
\* the guard macro was not already defined by the including code when the
\* file was first included.
C5_SucceedsOnPosix ==
  (SixHeaders \subseteq avail) =>
    /\ status # "error"
    /\ redefined = {}
    /\ (InclusionOver /\ ~GuardPredefined) => SixHeaders \subseteq decls

C5_Witness ==
  /\ SixHeaders \subseteq avail
  /\ status = "done"
  /\ nIncl >= 1
  /\ SixHeaders \subseteq decls

\* C6: a step of the file changes nothing of the translation unit but the
\* guard macro's definition and the declarations the system headers bring:
\* every other macro and every entity of the including code is left as it
\* was, nothing is removed, and the file declares nothing of its own.
C6_OnlyGuardAndHeaders ==
  [][ InFile =>
        /\ \A m \in MacroNames \ {Guard} : macros'[m] = macros[m]
        /\ macros'[Guard] \in { macros[Guard], ThisFile }
        /\ decls \subseteq decls'
        /\ (decls' \ decls) \subseteq SixHeaders
        /\ decls' \cap UserEntities = decls \cap UserEntities ]_vars

\* the including code had a macro and an entity of its own before the file
\* was included and processed in full
C6_Witness ==
  /\ macros["USER_MACRO"] = "tu"
  /\ "user_fn" \in decls
  /\ macros[Guard] = ThisFile
  /\ SixHeaders \subseteq decls
  /\ stack = << >>

\* C7: the guard macro is defined by the file before any header is included,
\* the headers are included in the fixed order, and a nested inclusion begun
\* while the body is being processed never enters the body.
C7_GuardFirstThenOrder ==
  /\ log # << >> => macros[Guard] = ThisFile
  /\ (\E i \in 1..Len(stack) : stack[i].line \in IncludeLines)
       => macros[Guard] = ThisFile
  /\ IsPrefix(log, SixInOrder)
  /\ \A i \in 2..Len(stack) : stack[i].line \in { IfndefLine, EndifLine }

\* a nested inclusion has been skipped while the body is at an #include line
C7_Witness ==
  /\ Len(stack) = 2
  /\ stack[2].line = EndifLine
  /\ stack[1].line \in IncludeLines
  /\ Len(log) >= 1

\* C8: with the guard macro already defined by the including code, no step of
\* an inclusion changes the preprocessor state and no header is included; a
\* header's declarations are visible only with the guard defined by the file
\* itself, that is, undefined when the file was first included.
C8_PredefinedGuardSkipsAll ==
  [][ /\ (GuardPredefined /\ InFile) => UNCHANGED FileState
      /\ GuardPredefined' => (log' = << >> /\ decls' \cap SixHeaders = {})
      /\ (decls' \cap SixHeaders # {}) => macros'[Guard] = ThisFile ]_vars

\* an inclusion is over with the guard defined by the including code
C8_Witness ==
  /\ GuardPredefined
  /\ nIncl >= 1
  /\ stack = << >>
  /\ log = << >>

====
